---- MODULE Spec2Model ----
(***************************************************************************)
(* State-machine model of the browser client of the bird flying game:     *)
(* the game loop and physics of main.js (both revisions kept in the       *)
(* repository), the mesh update of bird.js, the pose read-out of the      *)
(* skeleton overlay, and the start-up sequence of index.html / video.js.  *)
(*                                                                         *)
(* Numbers.  The program computes in IEEE doubles.  Here every quantity   *)
(* of the bird state is a fixed-point integer counting units of 1/Scale   *)
(* (Scale = 10000: 0.02 is 200, 5 is 50000); a product is truncated       *)
(* toward zero onto that grid.  Image coordinates of keypoints count      *)
(* thousandths.                                                            *)
(***************************************************************************)
EXTENDS Integers, Sequences, FiniteSets, TLC

Scale == 10000

\* x * (n/d), truncated toward zero
MulDiv(x, n, d) == IF x >= 0 THEN (x * n) \div d ELSE -(((-x) * n) \div d)

Max(a, b) == IF a >= b THEN a ELSE b
Min(a, b) == IF a <= b THEN a ELSE b
Abs(a) == IF a >= 0 THEN a ELSE -a

\* floor of the square root
ISqrt(v) == CHOOSE r \in 0..2000 : r * r <= v /\ (r + 1) * (r + 1) > v

-----------------------------------------------------------------------------
(* gameState.physics as the literal sets it, in units of 1/Scale (drag and *)
(* liftFactor as percentages)                                              *)
DefaultPhysics ==
    [gravity |-> 200, drag |-> 98, liftFactor |-> 1, flapStrength |-> 300,
     maxSpeed |-> 8000]

(* bounds of the exploration *)
MaxMsgs == 2
MaxFrames == 1
MaxStreak == 10
MaxDt == 2
MaxAngle == 60
MaxRender == 3
MaxTime == 8500

VARIABLES
    mainVersion,  \* which revision of main.js is loaded
    gameState,    \* the gameState object (started, paused, lastTime, lastCommand, birdState)
    bird,         \* the bird mesh group: position, rotation, userData
    cycle,        \* what the latest motion message carried and which branches it ran
    msgCount,     \* motion messages handled so far
    frameNo,      \* animation frames run so far
    twin,         \* gameState of a second run fed the same messages
    hud,          \* the "Physics Data" panel last drawn on the overlay canvas
    boot,         \* start-up: loading screen, initGame calls, running loops
    last,         \* the latest motion message and the bird state it was applied to
    run,          \* a sustained stream of one message: the message, where it began, its length
    video         \* the frame loop of video.js: its module state, the clock, what is scheduled

vars == <<mainVersion, gameState, bird, cycle, msgCount, frameNo, twin, hud, boot, last, run,
          video>>

\* the tunables where the handler reads them: gameState.physics.gravity, ...
gravity == gameState.physics.gravity
dragPct == gameState.physics.drag
liftFactorPct == gameState.physics.liftFactor
flapStrength == gameState.physics.flapStrength
maxSpeed == gameState.physics.maxSpeed

-----------------------------------------------------------------------------
(* Messages *)

Has(r, f) == f \in DOMAIN r

NoFields == [f \in {} |-> 0]

\* the commands objects explored ('flap' in commands, commands.state, commands.turn ...)
Commands ==
    { NoFields,
      [state |-> "none"],
      [state |-> "glide"],
      [state |-> "dive", dive_intensity |-> 10000],
      [state |-> "dive", dive_intensity |-> 0],
      [state |-> "gain_height", height_gain |-> 5000],
      [flap |-> TRUE, flap_intensity |-> 4000],
      [state |-> "none", flap |-> FALSE],
      [state |-> "glide", flap |-> TRUE, flap_intensity |-> 4000],
      [state |-> "gain_height", height_gain |-> 5000, flap |-> TRUE, flap_intensity |-> 4000],
      [state |-> "none", turn |-> "left", turn_angle |-> 30],
      [turn |-> "right", turn_angle |-> 60] }

\* server-computed bird_state objects explored
ServerStates ==
    { [speed |-> 5000, height |-> 60000, turn |-> 100],
      [speed |-> 10000, height |-> 20000, turn |-> -200],
      [speed |-> 5000, height |-> 0, turn |-> 0],
      [speed |-> 0, height |-> 0, turn |-> 0] }

\* the data of a 'movement_data' message
MovementMessages ==
    { [commands |-> c] : c \in Commands }
    \cup { [commands |-> c, bird_state |-> s] :
             c \in { [state |-> "none"], [flap |-> TRUE, flap_intensity |-> 4000] },
             s \in ServerStates }

\* the data of a 'motion_data' message: position[1], bird_data.speed, rotation[1], state
MotionMessages ==
    { [height |-> 50000, speed |-> 0, turn |-> 0],
      [height |-> 49000, speed |-> 3000, turn |-> 100, state |-> "flap"],
      [height |-> 49000, speed |-> 8000, turn |-> -100, state |-> "glide"],
      [height |-> 30000, speed |-> 10000, turn |-> 0, state |-> "dive"],
      [height |-> 0, speed |-> 0, turn |-> 0, state |-> "none"] }

-----------------------------------------------------------------------------
(* socket.on('movement_data'): the first revision's handler with its        *)
(* client-side physics                                                       *)

\* Object.keys(commands).length > 0
NonEmpty(commands) == DOMAIN commands # {}

\* commands.state (undefined when the field is absent)
CmdState(commands) == IF Has(commands, "state") THEN commands.state ELSE "undefined"

\* truthiness of commands.flap
CmdFlap(commands) == Has(commands, "flap") /\ commands.flap

\* !bird_state
NoServer(data) == ~Has(data, "bird_state")

\* r.f || d for a number field: an absent or zero field gives the default
OrElse(r, f, d) == IF Has(r, f) /\ r[f] # 0 THEN r[f] ELSE d

\* start the game when the first non-empty commands object is received
StartGame(g, data) ==
    IF ~g.started /\ NonEmpty(data.commands) THEN [g EXCEPT !.started = TRUE] ELSE g

ApplyGravity_whenGliding(b, commands) ==
    IF ~CmdFlap(commands) /\ CmdState(commands) = "glide"
    THEN [b EXCEPT !.verticalMomentum = @ - gravity]
    ELSE b

\* gravity: the bird falls if not flapping or gliding
ApplyGravity(b, commands) ==
    IF ~CmdFlap(commands) /\ CmdState(commands) # "glide"
    THEN [b EXCEPT !.verticalMomentum = @ - gravity]
    ELSE b

\* height += verticalMomentum
ApplyMomentum(b) == [b EXCEPT !.height = @ + b.verticalMomentum]

GroundCollision_noClamp(b) ==
    IF b.height <= 0
    THEN [b EXCEPT !.verticalMomentum = 0, !.speed = MulDiv(@, 95, 100)]
    ELSE b

\* ground collision: height and momentum zeroed, friction on speed
GroundCollision(b) ==
    IF b.height <= 0
    THEN [b EXCEPT !.height = 0, !.verticalMomentum = 0, !.speed = MulDiv(@, 95, 100)]
    ELSE b

\* air resistance on speed, decay of vertical momentum
AirResistance(b) ==
    [b EXCEPT !.speed = MulDiv(@, dragPct, 100),
              !.verticalMomentum = MulDiv(@, 95, 100)]

ClientPhysics(b, commands) ==
    AirResistance(GroundCollision(ApplyMomentum(ApplyGravity(b, commands))))

\* the if / else-if chain on commands.state
GlideBranch(b, data) ==
    LET b1 == [b EXCEPT !.wingFlap = FALSE]
    IN  IF NoServer(data)
        THEN [b1 EXCEPT !.verticalMomentum = Max(-100, @),
                        !.height = @ + MulDiv(b.speed, liftFactorPct, 100)]
        ELSE b1

DiveBranch(b, data) ==
    LET b1 == [b EXCEPT !.wingFlap = FALSE]
        intensity == OrElse(data.commands, "dive_intensity", 5000)
    IN  IF NoServer(data)
        THEN [b1 EXCEPT !.speed = @ + MulDiv(300, intensity, Scale),
                        !.verticalMomentum = @ - MulDiv(100, intensity, Scale)]
        ELSE b1

GainHeightBranch(b, data) ==
    LET b1 == [b EXCEPT !.wingFlap = TRUE,
                        !.wingFlapSpeed = 2000 + MulDiv(OrElse(data.commands, "height_gain", 0), 3, 10)]
        gain == OrElse(data.commands, "height_gain", 5000)
    IN  IF NoServer(data)
        THEN [b1 EXCEPT !.verticalMomentum = @ + MulDiv(300, gain, Scale),
                        !.speed = Max(@ - MulDiv(100, gain, Scale), 500)]
        ELSE b1

\* which branch of the chain a commands object selects
VerticalBranch(commands) ==
    IF CmdState(commands) \in {"glide", "dive", "gain_height"}
    THEN CmdState(commands)
    ELSE "none"

StateBranch(b, data) ==
    CASE VerticalBranch(data.commands) = "glide" -> GlideBranch(b, data)
      [] VerticalBranch(data.commands) = "dive" -> DiveBranch(b, data)
      [] VerticalBranch(data.commands) = "gain_height" -> GainHeightBranch(b, data)
      [] OTHER -> b

\* the sound state handed to playStateSound by the chain
BranchSound(commands) ==
    CASE VerticalBranch(commands) = "gain_height" -> "flap"
      [] OTHER -> VerticalBranch(commands)

FlapBlock_onServerState(b, data) ==
    IF Has(data.commands, "flap")
    THEN LET b1 == [b EXCEPT !.wingFlap = data.commands.flap,
                             !.wingFlapSpeed = OrElse(data.commands, "flap_intensity", 1000)]
             intensity == OrElse(data.commands, "flap_intensity", 5000)
         IN  IF data.commands.flap
             THEN [b1 EXCEPT !.verticalMomentum = @ + MulDiv(flapStrength, intensity, Scale),
                             !.speed = @ + MulDiv(100, intensity, Scale)]
             ELSE b1
    ELSE b

FlapBlock_noThrust(b, data) ==
    IF Has(data.commands, "flap")
    THEN LET b1 == [b EXCEPT !.wingFlap = data.commands.flap,
                             !.wingFlapSpeed = OrElse(data.commands, "flap_intensity", 1000)]
             intensity == OrElse(data.commands, "flap_intensity", 5000)
         IN  IF NoServer(data) /\ data.commands.flap
             THEN [b1 EXCEPT !.verticalMomentum = @ + MulDiv(flapStrength, intensity, Scale)]
             ELSE b1
    ELSE b

\* "Update flapping": runs whenever commands has a flap field
FlapBlock(b, data) ==
    IF Has(data.commands, "flap")
    THEN LET b1 == [b EXCEPT !.wingFlap = data.commands.flap,
                             !.wingFlapSpeed = OrElse(data.commands, "flap_intensity", 1000)]
             intensity == OrElse(data.commands, "flap_intensity", 5000)
         IN  IF NoServer(data) /\ data.commands.flap
             THEN [b1 EXCEPT !.verticalMomentum = @ + MulDiv(flapStrength, intensity, Scale),
                             !.speed = @ + MulDiv(100, intensity, Scale)]
             ELSE b1
    ELSE b

TurnPower_linear(turnAngle) == MulDiv(turnAngle, 500, 60)

\* Math.pow(turnAngle / 60, 1.5) * 0.05, turnAngle in degrees
TurnPower(turnAngle) == ISqrt((turnAngle * turnAngle * turnAngle * 125) \div 108)

\* server state if present, else the turn command, else decay of the turn
TurnBlock(b, data) ==
    IF ~NoServer(data)
    THEN [b EXCEPT !.speed = data.bird_state.speed,
                   !.height = data.bird_state.height,
                   !.turn = data.bird_state.turn]
    ELSE IF Has(data.commands, "turn")
         THEN LET turnPower == TurnPower(OrElse(data.commands, "turn_angle", 0))
              IN  [b EXCEPT !.turn = IF data.commands.turn = "left" THEN -turnPower ELSE turnPower]
         ELSE [b EXCEPT !.turn = MulDiv(@, 9, 10)]

\* "Apply speed limits"
SpeedLimits(b) == [b EXCEPT !.speed = Min(Max(@, 0), maxSpeed)]

\* playStateSound: remembers the state it was last called with
PlayStateSound(lastCommand, state) == state

\* the calls of playStateSound the handler makes for a message, in order
SoundCalls(commands) ==
    <<BranchSound(commands)>> \o (IF CmdFlap(commands) THEN <<"flap">> ELSE <<>>)

\* the calls that get past "if (state === gameState.lastCommand) return":
\* each of them writes lastCommand and reaches the play() of its sound
RECURSIVE SoundsTriggered(_, _)
SoundsTriggered(lastCommand, calls) ==
    IF calls = <<>> THEN <<>>
    ELSE IF Head(calls) = lastCommand
         THEN SoundsTriggered(lastCommand, Tail(calls))
         ELSE <<Head(calls)>>
              \o SoundsTriggered(PlayStateSound(lastCommand, Head(calls)), Tail(calls))

\* the physics branches that changed the bird state for this message
Effects(data) ==
    (IF NoServer(data) /\ VerticalBranch(data.commands) # "none"
     THEN {VerticalBranch(data.commands)} ELSE {})
    \cup (IF NoServer(data) /\ CmdFlap(data.commands) THEN {"flap"} ELSE {})

ClientPhysicsStep_beforeStart(g, data) ==
    IF NoServer(data)
    THEN ClientPhysics(g.birdState, data.commands)
    ELSE g.birdState

\* "Apply client-side physics if no server physics"
ClientPhysicsStep_unlessPaused(g, data) ==
    IF NoServer(data) /\ g.started /\ ~g.paused
    THEN ClientPhysics(g.birdState, data.commands)
    ELSE g.birdState

ClientPhysicsStep(g, data) ==
    IF NoServer(data) /\ g.started
    THEN ClientPhysics(g.birdState, data.commands)
    ELSE g.birdState

MovementDataHandler(g, data) ==
    LET g1 == StartGame(g, data)
        b1 == ClientPhysicsStep(g1, data)
        b2 == StateBranch(b1, data)
        b3 == FlapBlock(b2, data)
        b4 == TurnBlock(b3, data)
        b5 == SpeedLimits(b4)
        lc1 == PlayStateSound(g1.lastCommand, BranchSound(data.commands))
        lc2 == IF CmdFlap(data.commands) THEN PlayStateSound(lc1, "flap") ELSE lc1
    IN  [g1 EXCEPT !.birdState = b5, !.lastCommand = lc2]

\* what the message carried and which branches it ran, with the previous cycle's
NextCycle(c, state, branch, effects, keypoints) ==
    [state |-> state, branch |-> branch, effects |-> effects, keypoints |-> keypoints,
     prevState |-> c.state, prevBranch |-> c.branch]

-----------------------------------------------------------------------------
(* socket.on('motion_data'): the second revision's handler; the bird state  *)
(* is taken from the server                                                  *)

MotionDataHandler(g, data) ==
    LET b == [g.birdState EXCEPT !.height = data.height,
                                 !.speed = data.speed,
                                 !.turn = data.turn]
        lc == IF Has(data, "state") /\ data.state # g.lastCommand
              THEN data.state ELSE g.lastCommand
    IN  [g EXCEPT !.started = TRUE, !.birdState = b, !.lastCommand = lc]

-----------------------------------------------------------------------------
(* bird.js updateBird(bird, state): moves and tilts the mesh from the bird  *)
(* state.  The transforms of the child meshes (wings, tail, body, head),    *)
(* which follow performance.now(), are not part of the model.               *)

\* degrees to radians: * Math.PI / 180
Rad(deg) == MulDiv(deg, 349, 20000)

Lerp_swapped(a, b, pct) == b + MulDiv(a - b, pct, 100)

\* THREE.MathUtils.lerp(a, b, t), t in hundredths
Lerp(a, b, pct) == a + MulDiv(b - a, pct, 100)

\* the flight condition updateBird reads off the state and the angles, in
\* degrees, it steers the mesh towards
Posture(m, state) ==
    LET verticalSpeed == state.height - m.userData.lastHeight
        isFlapping == state.wingFlap
        isDiving == state.speed > 3000 /\ verticalSpeed < -100
        isGliding == ~isFlapping /\ state.speed > 500 /\ Abs(verticalSpeed) < 100
        isRising == verticalSpeed > 100
        isFalling == ~isFlapping /\ ~isGliding /\ verticalSpeed < -50
        fallingTime == IF isFalling THEN m.userData.fallingTime + 160 ELSE 0
        targetBankAngle == -state.turn * 35
        targetPitchAngle ==
            CASE isDiving -> 200000 + Min(700000, state.speed * 100)
              [] ~isDiving /\ isRising /\ isFlapping ->
                    -200000 - Min(300000, Abs(verticalSpeed) * 300)
              [] ~isDiving /\ ~(isRising /\ isFlapping) /\ isGliding -> 50000
              [] ~isDiving /\ ~(isRising /\ isFlapping) /\ ~isGliding /\ isFalling ->
                    Min(600000, fallingTime * 40)
              [] OTHER -> 0
    IN  [verticalSpeed |-> verticalSpeed, isDiving |-> isDiving,
         fallingTime |-> fallingTime,
         targetBankAngle |-> targetBankAngle, targetPitchAngle |-> targetPitchAngle]

\* the smoothing rates of the bank and of the pitch, in hundredths
BankRate == 10
PitchRate(isDiving) == IF isDiving THEN 15 ELSE 8

UpdateBird(m, state) ==
    LET p == Posture(m, state)
    IN  [position |-> [y |-> state.height, z |-> m.position.z + state.speed],
         rotation |-> [x |-> Lerp(m.rotation.x, Rad(p.targetPitchAngle),
                                  PitchRate(p.isDiving)),
                       y |-> m.rotation.y + state.turn,
                       z |-> Lerp(m.rotation.z, Rad(p.targetBankAngle), BankRate)],
         userData |-> [lastHeight |-> state.height,
                       verticalSpeed |-> p.verticalSpeed,
                       fallingTime |-> p.fallingTime]]

-----------------------------------------------------------------------------
(* State after the module has been evaluated *)

InitBirdState ==
    [speed |-> 0, height |-> 50000, turn |-> 0, wingFlap |-> FALSE,
     wingFlapSpeed |-> 0, verticalMomentum |-> 0]

InitGameState ==
    [started |-> FALSE, paused |-> FALSE, lastTime |-> 0, lastCommand |-> "none",
     birdState |-> InitBirdState, physics |-> DefaultPhysics]

\* setupBird: the group at the origin with its animation properties
InitBird ==
    [position |-> [y |-> 0, z |-> 0],
     rotation |-> [x |-> 0, y |-> 0, z |-> 0],
     userData |-> [lastHeight |-> 0, verticalSpeed |-> 0, fallingTime |-> 0]]

InitCycle ==
    [state |-> "none", branch |-> "none", effects |-> {}, keypoints |-> <<>>,
     prevState |-> "none", prevBranch |-> "none"]

\* no message handled yet
InitLast ==
    [data |-> [commands |-> NoFields], before |-> InitBirdState,
     ticked |-> FALSE, gravity |-> FALSE, sounds |-> <<>>]

InitRun == [data |-> [commands |-> NoFields], start |-> InitBirdState, n |-> 0]

-----------------------------------------------------------------------------
(* The skeleton overlay of the first revision's video.js: drawSkeleton      *)
(* clears the canvas and drawPhysicsIndicators draws the "Physics Data"     *)
(* panel from the keypoints.  A keypoint is <<x, y>> in thousandths of the  *)
(* image, or <<>> where the detector reported none (null); keypoints[i] of  *)
(* the program is kp[i + 1] here.                                           *)

Present(p) == p # <<>>
X(p) == p[1]
Y(p) == p[2]

\* nothing on the canvas where the panel goes
BlankHud ==
    [drawn |-> FALSE, turn |-> 0, lean |-> 0, flap |-> 0, glide |-> FALSE, mode |-> "none"]

\* (shoulderMidX - nose[0]) * 20
TorsoAngle(kp) == ((X(kp[1]) + X(kp[2])) \div 2 - X(kp[9])) * 20

\* (nose[1] - shoulderMidY) * 10
ForwardLean(kp) == (Y(kp[9]) - (Y(kp[1]) + Y(kp[2])) \div 2) * 10

\* Math.max(0, (leftFlapHeight + rightFlapHeight) * 5), 0 unless both elbows and wrists are there
FlapSpeed(kp) ==
    IF Present(kp[5]) /\ Present(kp[6]) /\ Present(kp[3]) /\ Present(kp[4])
    THEN Max(0, ((Y(kp[3]) - Y(kp[5])) + (Y(kp[4]) - Y(kp[6]))) * 5)
    ELSE 0

\* arms horizontal and straight, false unless both elbows and wrists are there
IsGliding(kp) ==
    IF Present(kp[3]) /\ Present(kp[4]) /\ Present(kp[5]) /\ Present(kp[6])
    THEN /\ Abs(Y(kp[1]) - Y(kp[3])) < 50
         /\ Abs(Y(kp[2]) - Y(kp[4])) < 50
         /\ Abs(X(kp[3]) - X(kp[5])) > 100
         /\ Abs(X(kp[4]) - X(kp[6])) > 100
    ELSE FALSE

\* the "Current mode" chain
CurrentMode(isGliding, flapSpeed, forwardLean, torsoAngle) ==
    IF isGliding THEN "Gliding"
    ELSE IF flapSpeed > 300
         THEN (IF forwardLean < -100 THEN "Gaining Height" ELSE "Flying")
         ELSE IF forwardLean > 200 THEN "Diving"
              ELSE IF Abs(torsoAngle) > 300
                   THEN (IF torsoAngle > 0 THEN "Turning Left" ELSE "Turning Right")
                   ELSE "Falling"

\* the panel drawPhysicsIndicators leaves on a cleared canvas
DrawPhysicsIndicators(kp) ==
    IF Len(kp) < 9 THEN BlankHud
    ELSE IF ~Present(kp[1]) \/ ~Present(kp[2]) \/ ~Present(kp[9]) THEN BlankHud
    ELSE [drawn |-> TRUE,
          turn |-> TorsoAngle(kp),
          lean |-> ForwardLean(kp),
          flap |-> FlapSpeed(kp),
          glide |-> IsGliding(kp),
          mode |-> CurrentMode(IsGliding(kp), FlapSpeed(kp), ForwardLean(kp), TorsoAngle(kp))]

\* drawSkeleton(keypoints): clearRect, then the lines, the guide and the panel
DrawSkeleton(h, kp) == IF Len(kp) = 0 THEN BlankHud ELSE DrawPhysicsIndicators(kp)

\* the handler draws only when keypoints is there and not empty
DrawOverlay(h, data) ==
    IF Has(data, "keypoints") /\ Len(data.keypoints) > 0
    THEN DrawSkeleton(h, data.keypoints)
    ELSE h

Null == <<>>

\* keypoint frames explored: shoulders, elbows, wrists, hips (unused), nose
KeypointFrames ==
    { <<ls, <<700, 500>>, le, re, lw, rw, Null, Null, nose>> :
        ls \in {Null, <<300, 500>>},
        le \in {Null, <<200, 500>>},
        re \in {Null, <<800, 500>>, <<800, 600>>},
        lw \in {Null, <<50, 460>>, <<50, 500>>},
        rw \in {Null, <<950, 460>>, <<950, 500>>},
        nose \in {Null, <<500, 300>>, <<500, 500>>, <<500, 530>>, <<480, 500>>, <<520, 500>>} }
    \cup { <<>>, << <<300, 500>>, <<700, 500>> >> }

\* 'movement_data' messages that carry a pose and no command
PoseMessages == { [commands |-> NoFields, keypoints |-> k] : k \in KeypointFrames }

-----------------------------------------------------------------------------
(* Start-up of the second revision: the inline script of index.html (the    *)
(* window 'load' handler and the 15 s forced start), initGame, and          *)
(* setupVideo of video.js.  Timers are pending events; an initGame call is  *)
(* [by, pc, send, hide, fallback]:                                          *)
(*   pc       "camera": awaiting getUserMedia, "video": awaiting the video, *)
(*            "done": setupVideo returned and animate(0) was called         *)
(*   send     the 500 ms timer that starts sendFrames                       *)
(*   hide     the timers of the load handler that hide the loading screen   *)
(*   fallback the 5 s timer of initGame that hides the loading screen       *)

BootConstructed ==
    [loading |-> "shown", load |-> "pending", forced |-> "pending",
     calls |-> <<>>, sendLoops |-> 0, animLoops |-> 0]

NewCall(by) ==
    [by |-> by, pc |-> "camera", send |-> "none", hide |-> "none", fallback |-> "none"]

\* the game running after a start-up with the camera granted in time
BootRunning ==
    [loading |-> "hidden", load |-> "done", forced |-> "done",
     calls |-> << [by |-> "load", pc |-> "done", send |-> "started",
                   hide |-> "done", fallback |-> "done"] >>,
     sendLoops |-> 1, animLoops |-> 1]

\* the window 'load' event: the handler sets the 500 ms timer
WindowLoad ==
    /\ boot.load = "pending"
    /\ boot' = [boot EXCEPT !.load = "timer"]
    /\ UNCHANGED <<video, last, run, mainVersion, gameState, bird, cycle, msgCount, frameNo, twin, hud>>

\* the 500 ms timer of the load handler calls initGame()
LoadInit ==
    /\ boot.load = "timer"
    /\ boot' = [boot EXCEPT !.load = "done", !.calls = Append(@, NewCall("load"))]
    /\ UNCHANGED <<video, last, run, mainVersion, gameState, bird, cycle, msgCount, frameNo, twin, hud>>

\* the 15 s timer: if the loading screen still shows, hide it and call initGame()
ForcedStart ==
    /\ boot.forced = "pending"
    /\ boot' = IF boot.loading # "hidden"
               THEN [boot EXCEPT !.forced = "done", !.loading = "hidden",
                                 !.calls = Append(@, NewCall("forced"))]
               ELSE [boot EXCEPT !.forced = "done"]
    /\ UNCHANGED <<video, last, run, mainVersion, gameState, bird, cycle, msgCount, frameNo, twin, hud>>

\* getUserMedia resolves: the stream is attached and sendFrames is scheduled
CameraGranted(i) ==
    /\ boot.calls[i].pc = "camera"
    /\ boot' = [boot EXCEPT !.calls[i].pc = "video", !.calls[i].send = "timer"]
    /\ UNCHANGED <<video, last, run, mainVersion, gameState, bird, cycle, msgCount, frameNo, twin, hud>>

\* initGame after "await setupVideo": animate(0), the 5 s fallback, and for
\* the load handler's call the timers that hide the loading screen
InitGameContinues(b, i) ==
    [b EXCEPT !.calls[i].pc = "done",
              !.calls[i].fallback = "timer",
              !.calls[i].hide = IF b.calls[i].by = "load" THEN "timer" ELSE "none",
              !.animLoops = @ + 1]

\* getUserMedia rejects: setupVideo returns null and initGame goes on
CameraDenied(i) ==
    /\ boot.calls[i].pc = "camera"
    /\ boot' = InitGameContinues(boot, i)
    /\ UNCHANGED <<video, last, run, mainVersion, gameState, bird, cycle, msgCount, frameNo, twin, hud>>

\* the video's metadata loaded, or the 3 s timeout: setupVideo's promise resolves
VideoReady(i) ==
    /\ boot.calls[i].pc = "video"
    /\ boot' = InitGameContinues(boot, i)
    /\ UNCHANGED <<video, last, run, mainVersion, gameState, bird, cycle, msgCount, frameNo, twin, hud>>

\* the 500 ms timer set on camera access runs sendFrames, which keeps rescheduling itself
StartSendFrames(i) ==
    /\ boot.calls[i].send = "timer"
    /\ boot' = [boot EXCEPT !.calls[i].send = "started", !.sendLoops = @ + 1]
    /\ UNCHANGED <<video, last, run, mainVersion, gameState, bird, cycle, msgCount, frameNo, twin, hud>>

\* the load handler's timers after initGame resolved: fade out, display none
HideLoading(i) ==
    /\ boot.calls[i].hide = "timer"
    /\ boot' = [boot EXCEPT !.calls[i].hide = "done", !.loading = "hidden"]
    /\ UNCHANGED <<video, last, run, mainVersion, gameState, bird, cycle, msgCount, frameNo, twin, hud>>

\* initGame's 5 s fallback: hide the loading screen if it still shows
FallbackHide(i) ==
    /\ boot.calls[i].fallback = "timer"
    /\ boot' = [boot EXCEPT !.calls[i].fallback = "done", !.loading = "hidden"]
    /\ UNCHANGED <<video, last, run, mainVersion, gameState, bird, cycle, msgCount, frameNo, twin, hud>>

-----------------------------------------------------------------------------
(* video.js sendFrames(socket): the loop that captures the camera picture   *)
(* and emits it as 'video_frame'.  Times are milliseconds; frameInterval is *)
(* 1000 / fps and is kept as fps, so that elapsed > frameInterval is        *)
(* elapsed * fps > 1000.                                                    *)

\* Date.now() when the loop is started
PageLoadTime == 1000

\* the time from one animation frame callback of the loop to the next
FrameTick == 70

\* a long gap between two callbacks: the tab was hidden
LongGap == 6000

\* the frame rate for a connection status
FrameRate(connectionStatus) ==
    CASE connectionStatus = "good" -> 15
      [] connectionStatus = "slow" -> 8
      [] OTHER -> 10

\* while (processingBuffer.length > 0 && processingBuffer[0] < thresholdTime) shift()
RECURSIVE DropOld(_, _)
DropOld(buffer, thresholdTime) ==
    IF Len(buffer) > 0 /\ Head(buffer) < thresholdTime
    THEN DropOld(Tail(buffer), thresholdTime)
    ELSE buffer

\* the video element is missing, paused or ended, or the status is 'disconnected'
Unavailable(v) == ~v.available \/ v.connectionStatus = "disconnected"

\* elapsed > frameInterval at the time v.now
Due(v) == (v.now - v.lastFrameTime) * FrameRate(v.connectionStatus) > 1000

SendFrames_stopsOnThrow(v, capture, metrics) ==
    IF Unavailable(v)
    THEN [v EXCEPT !.timers = @ + 1, !.sent = FALSE]
    ELSE LET now == v.now
             due == Due(v)
             emitted == due /\ capture = "none"
             buffer1 == IF due /\ capture # "capture"
                        THEN Append(v.processingBuffer, now) ELSE v.processingBuffer
             count == IF due THEN v.frameCount + 1 ELSE v.frameCount
             measured == due /\ count % 30 = 0 /\ ~metrics
         IN  [v EXCEPT !.fps = FrameRate(v.connectionStatus),
                       !.lastFrameTime = IF due THEN now ELSE @,
                       !.processingBuffer = DropOld(buffer1, now - 5000),
                       !.frameCount = count,
                       !.connectionStatus =
                           IF measured
                           THEN (IF Len(buffer1) > 60 THEN "slow" ELSE "good")
                           ELSE @,
                       !.rafs = IF capture # "none" \/ metrics THEN @ ELSE @ + 1,
                       !.sent = emitted,
                       !.gap = IF emitted THEN now - v.lastEmit ELSE @,
                       !.lastEmit = IF emitted THEN now ELSE @]

SendFrames_whilePaused(v, capture, metrics) ==
    LET now == v.now
        due == Due(v)
        emitted == due /\ capture = "none"
        buffer1 == IF due /\ capture # "capture"
                   THEN Append(v.processingBuffer, now) ELSE v.processingBuffer
        count == IF due THEN v.frameCount + 1 ELSE v.frameCount
        measured == due /\ count % 30 = 0 /\ ~metrics
    IN  [v EXCEPT !.fps = FrameRate(v.connectionStatus),
                  !.lastFrameTime = IF due THEN now ELSE @,
                  !.processingBuffer = DropOld(buffer1, now - 5000),
                  !.frameCount = count,
                  !.connectionStatus =
                      IF measured
                      THEN (IF Len(buffer1) > 60 THEN "slow" ELSE "good")
                      ELSE @,
                  !.rafs = @ + 1,
                  !.sent = emitted,
                  !.gap = IF emitted THEN now - v.lastEmit ELSE @,
                  !.lastEmit = IF emitted THEN now ELSE @]

SendFrames_keepsAll(v, capture, metrics) ==
    IF Unavailable(v)
    THEN [v EXCEPT !.timers = @ + 1, !.sent = FALSE]
    ELSE LET now == v.now
             due == Due(v)
             emitted == due /\ capture = "none"
             buffer1 == IF due /\ capture # "capture"
                        THEN Append(v.processingBuffer, now) ELSE v.processingBuffer
             count == IF due THEN v.frameCount + 1 ELSE v.frameCount
             measured == due /\ count % 30 = 0 /\ ~metrics
         IN  [v EXCEPT !.fps = FrameRate(v.connectionStatus),
                       !.lastFrameTime = IF due THEN now ELSE @,
                       !.processingBuffer = buffer1,
                       !.frameCount = count,
                       !.connectionStatus =
                           IF measured
                           THEN (IF Len(buffer1) > 60 THEN "slow" ELSE "good")
                           ELSE @,
                       !.rafs = @ + 1,
                       !.sent = emitted,
                       !.gap = IF emitted THEN now - v.lastEmit ELSE @,
                       !.lastEmit = IF emitted THEN now ELSE @]

\* one pass of sendFrames at the time v.now.  capture tells where the capture
\* block throws ("none", "capture": drawImage or toDataURL, before the push;
\* "emit": socket.emit, after it); metrics, whether displayVideoStatus throws
\* in the metrics block.  sent, gap and lastEmit record the emission.
SendFrames(v, capture, metrics) ==
    IF Unavailable(v)
    THEN [v EXCEPT !.timers = @ + 1, !.sent = FALSE]
    ELSE LET now == v.now
             due == Due(v)
             emitted == due /\ capture = "none"
             buffer1 == IF due /\ capture # "capture"
                        THEN Append(v.processingBuffer, now) ELSE v.processingBuffer
             count == IF due THEN v.frameCount + 1 ELSE v.frameCount
             measured == due /\ count % 30 = 0 /\ ~metrics
         IN  [v EXCEPT !.fps = FrameRate(v.connectionStatus),
                       !.lastFrameTime = IF due THEN now ELSE @,
                       !.processingBuffer = DropOld(buffer1, now - 5000),
                       !.frameCount = count,
                       !.connectionStatus =
                           IF measured
                           THEN (IF Len(buffer1) > 60 THEN "slow" ELSE "good")
                           ELSE @,
                       !.rafs = @ + 1,
                       !.sent = emitted,
                       !.gap = IF emitted THEN now - v.lastEmit ELSE @,
                       !.lastEmit = IF emitted THEN now ELSE @]

\* the global Buffer of Node: a page loaded as plain modules does not have it
BufferDefined == FALSE

\* the first revision's processFrame(timestamp), the callback of its own
\* sendFrames(socket, video): the interval is 100 ms when connected and 500
\* ms when not; Buffer.from(...) is evaluated before socket.emit is called
ProcessFrame(v) ==
    IF (v.now - v.lastFrameTime) * v.fps < 1000
    THEN [v EXCEPT !.rafs = @ + 1, !.sent = FALSE]
    ELSE LET emitted == v.isConnected /\ BufferDefined
         IN  [v EXCEPT !.lastFrameTime = v.now,
                       !.fps = IF v.isConnected THEN 10 ELSE 2,
                       !.rafs = @ + 1,
                       !.sent = emitted,
                       !.gap = IF emitted THEN v.now - v.lastEmit ELSE @,
                       !.lastEmit = IF emitted THEN v.now ELSE @]

\* the module state of video.js when initGame calls sendFrames: one call is
\* about to run, nothing is buffered, no frame has been sent
InitVideo ==
    [available |-> TRUE, now |-> PageLoadTime, lastFrameTime |-> 0, fps |-> 10,
     connectionStatus |-> "connecting", frameCount |-> 0, processingBuffer |-> <<>>,
     calls |-> 1, timers |-> 0, rafs |-> 0,
     isConnected |-> TRUE,
     event |-> "none", passes |-> 0, sent |-> FALSE, gap |-> 0, lastEmit |-> 0]

-----------------------------------------------------------------------------
(* The handlers as actions *)

\* what a motion message found and did: the message, the bird state before it,
\* whether the client-side physics ran and whether its gravity branch was taken
Observe(g, data) ==
    [data |-> data,
     before |-> g.birdState,
     ticked |-> NoServer(data) /\ StartGame(g, data).started,
     gravity |-> /\ NoServer(data) /\ StartGame(g, data).started
                 /\ ApplyGravity(g.birdState, data.commands) # g.birdState,
     sounds |-> SoundsTriggered(g.lastCommand, SoundCalls(data.commands))]

MovementDataStep(data) ==
    /\ mainVersion = "movement_data"
    /\ gameState' = MovementDataHandler(gameState, data)
    /\ twin' = MovementDataHandler(twin, data)
    /\ hud' = DrawOverlay(hud, data)
    /\ cycle' = NextCycle(cycle, CmdState(data.commands), VerticalBranch(data.commands),
                          Effects(data),
                          IF Has(data, "keypoints") THEN data.keypoints ELSE <<>>)
    /\ msgCount' = Min(msgCount + 1, MaxMsgs)
    /\ last' = Observe(gameState, data)
    /\ UNCHANGED <<video, mainVersion, bird, frameNo, boot>>

MovementData(data) == MovementDataStep(data) /\ UNCHANGED run

\* one more message of a sustained stream: the same message as the one before it
Sustain(data) ==
    /\ run.n = 0 \/ data = run.data
    /\ run.n < MaxStreak
    /\ MovementDataStep(data)
    /\ run' = [data |-> data,
               start |-> IF run.n = 0 THEN gameState.birdState ELSE run.start,
               n |-> run.n + 1]

MotionData(data) ==
    /\ mainVersion = "motion_data"
    /\ gameState' = MotionDataHandler(gameState, data)
    /\ twin' = MotionDataHandler(twin, data)
    /\ cycle' = NextCycle(cycle, IF Has(data, "state") THEN data.state ELSE "undefined",
                          "none", {}, <<>>)
    /\ boot' = IF ~gameState.started THEN [boot EXCEPT !.loading = "hidden"] ELSE boot
    /\ msgCount' = Min(msgCount + 1, MaxMsgs)
    /\ last' = [data |-> data, before |-> gameState.birdState,
                ticked |-> FALSE, gravity |-> FALSE,
                sounds |-> IF Has(data, "state") /\ data.state # gameState.lastCommand
                           THEN <<data.state>> ELSE <<>>]
    /\ UNCHANGED <<video, run, mainVersion, bird, frameNo, hud>>

\* keydown with key 'p' / 'P' (the other keys toggle display flags only)
Keydown ==
    /\ gameState' = [gameState EXCEPT !.paused = ~@]
    /\ UNCHANGED <<video, last, run, mainVersion, bird, cycle, msgCount, frameNo, twin, hud, boot>>

\* one run of the first revision's animate callback; the timestamp handed to
\* it is dt frame intervals after the one before
Frame1_ticksPhysics ==
    /\ mainVersion = "movement_data"
    /\ boot.animLoops >= 1
    /\ frameNo' = frameNo + 1
    /\ \E dt \in 1..MaxDt :
          gameState' = [gameState EXCEPT
                          !.lastTime = @ + dt,
                          !.birdState = IF gameState.started /\ ~gameState.paused
                                        THEN ClientPhysics(@, NoFields) ELSE @]
    /\ bird' = IF gameState.started /\ ~gameState.paused
               THEN UpdateBird(bird, gameState.birdState)
               ELSE bird
    /\ UNCHANGED <<video, last, run, mainVersion, cycle, msgCount, twin, hud, boot>>

Frame1 ==
    /\ mainVersion = "movement_data"
    /\ boot.animLoops >= 1
    /\ frameNo' = frameNo + 1
    /\ \E dt \in 1..MaxDt : gameState' = [gameState EXCEPT !.lastTime = @ + dt]
    /\ bird' = IF gameState.started /\ ~gameState.paused
               THEN UpdateBird(bird, gameState.birdState)
               ELSE bird
    /\ UNCHANGED <<video, last, run, mainVersion, cycle, msgCount, twin, hud, boot>>

Animate1 == frameNo < MaxFrames /\ Frame1

\* one run of the second revision's animate callback: nothing while paused
Frame2 ==
    /\ mainVersion = "motion_data"
    /\ boot.animLoops >= 1
    /\ frameNo' = frameNo + 1
    /\ \E dt \in 1..MaxDt :
          gameState' = IF gameState.paused THEN gameState
                       ELSE [gameState EXCEPT !.lastTime = @ + dt]
    /\ bird' = IF gameState.paused THEN bird
               ELSE UpdateBird(bird, gameState.birdState)
    /\ UNCHANGED <<video, last, run, mainVersion, cycle, msgCount, twin, hud, boot>>

Animate2 == frameNo < MaxFrames /\ Frame2

\* the callback scheduled as kind runs after its delay: the direct call at
\* once, the setTimeout callback after 500 ms, the animation frame callback
\* after one frame
Delay(kind) ==
    CASE kind = "calls" -> 0
      [] kind = "timers" -> 500
      [] OTHER -> FrameTick

\* the loop state when that callback starts to run, dt later
Scheduled(v, kind, dt) ==
    [v EXCEPT !.now = @ + dt, ![kind] = @ - 1, !.passes = @ + 1]

InTime(dt) == video.now + dt <= PageLoadTime + MaxTime

VideoUnchanged ==
    UNCHANGED <<mainVersion, gameState, bird, cycle, msgCount, frameNo, twin, hud, boot,
                last, run>>

\* one pass of sendFrames in which nothing throws
SendFramesPass ==
    /\ mainVersion = "motion_data"
    /\ \E kind \in {"calls", "timers", "rafs"} :
          /\ video[kind] > 0
          /\ InTime(Delay(kind))
          /\ video' = SendFrames(Scheduled(video, kind, Delay(kind)), "none", FALSE)
    /\ VideoUnchanged

\* a pass whose capture block throws, before or after the push
CaptureThrows ==
    /\ mainVersion = "motion_data"
    /\ video.event = "none"
    /\ \E kind \in {"calls", "timers", "rafs"}, where \in {"capture", "emit"} :
          LET v == Scheduled(video, kind, Delay(kind))
          IN  /\ video[kind] > 0
              /\ InTime(Delay(kind))
              /\ ~Unavailable(v) /\ Due(v)
              /\ video' = [SendFrames(v, where, FALSE) EXCEPT !.event = "threw"]
    /\ VideoUnchanged

\* a pass whose metrics block throws
MetricsThrow ==
    /\ mainVersion = "motion_data"
    /\ video.event = "none"
    /\ \E kind \in {"calls", "timers", "rafs"} :
          LET v == Scheduled(video, kind, Delay(kind))
          IN  /\ video[kind] > 0
              /\ InTime(Delay(kind))
              /\ ~Unavailable(v) /\ Due(v) /\ (v.frameCount + 1) % 30 = 0
              /\ video' = [SendFrames(v, "none", TRUE) EXCEPT !.event = "threw"]
    /\ VideoUnchanged

\* the animation frame callback comes after a long gap
LatePass ==
    /\ mainVersion = "motion_data"
    /\ video.event = "none"
    /\ video.rafs > 0
    /\ InTime(LongGap)
    /\ video' = [SendFrames(Scheduled(video, "rafs", LongGap), "none", FALSE)
                    EXCEPT !.event = "stalled"]
    /\ VideoUnchanged

\* the video is paused or its stream ends
PauseVideo ==
    /\ video.event = "none"
    /\ video.available
    /\ video' = [video EXCEPT !.available = FALSE, !.event = "paused"]
    /\ VideoUnchanged

\* the video plays again
PlayVideo ==
    /\ video.event = "paused"
    /\ video' = [video EXCEPT !.available = TRUE, !.event = "resumed"]
    /\ VideoUnchanged

\* one run of the first revision's processFrame
ProcessFramePass ==
    /\ mainVersion = "movement_data"
    /\ \E kind \in {"calls", "rafs"} :
          /\ video[kind] > 0
          /\ InTime(Delay(kind))
          /\ video' = ProcessFrame(Scheduled(video, kind, Delay(kind)))
    /\ VideoUnchanged

\* socket.on('disconnect') of the first revision's sendFrames
Disconnect ==
    /\ mainVersion = "movement_data"
    /\ video.event = "none"
    /\ video' = [video EXCEPT !.isConnected = FALSE, !.event = "disconnected"]
    /\ VideoUnchanged

-----------------------------------------------------------------------------
(* Specifications *)

\* the page as loaded, with the physics literal reading p
ConstructedWith(p) ==
    /\ mainVersion \in {"movement_data", "motion_data"}
    /\ gameState = [InitGameState EXCEPT !.physics = p]
    /\ bird = InitBird
    /\ cycle = InitCycle
    /\ msgCount = 0
    /\ frameNo = 0
    /\ twin = [InitGameState EXCEPT !.physics = p]
    /\ hud = BlankHud
    /\ last = InitLast
    /\ run = InitRun
    /\ video = InitVideo

Constructed == ConstructedWith(DefaultPhysics)

\* the game loop: the page has started up, the animation loop runs
Init == Constructed /\ boot = BootRunning

Next ==
    \/ (msgCount < MaxMsgs /\ \E data \in MovementMessages : MovementData(data))
    \/ (msgCount < MaxMsgs /\ \E data \in MotionMessages : MotionData(data))
    \/ Keydown
    \/ Animate1
    \/ Animate2

Spec == Init /\ [][Next]_vars

\* a sustained stream of Idle messages to the first revision
IdleMessages ==
    { m \in MovementMessages :
        /\ NoServer(m)
        /\ NonEmpty(m.commands)
        /\ VerticalBranch(m.commands) = "none"
        /\ ~CmdFlap(m.commands) }

IdleTick == \E data \in IdleMessages : MovementData(data)

InitIdle == Init /\ mainVersion = "movement_data"

SpecIdle == InitIdle /\ [][IdleTick]_vars /\ WF_vars(IdleTick)

\* pose frames drawn on the overlay
PoseTick == msgCount < MaxMsgs /\ \E data \in PoseMessages : MovementData(data)

SpecPose == InitIdle /\ [][PoseTick]_vars

\* at most one message of any kind, then a sustained stream of one message
Setup == msgCount = 0 /\ run.n = 0 /\ \E data \in MovementMessages : MovementData(data)

SustainedTick == \E data \in MovementMessages : Sustain(data)

SustainedNext == Setup \/ SustainedTick

SpecSustained == InitIdle /\ [][SustainedNext]_vars

\* the start-up of the page
InitStartup == Constructed /\ mainVersion = "motion_data" /\ boot = BootConstructed

StartupNext ==
    \/ WindowLoad
    \/ LoadInit
    \/ ForcedStart
    \/ \E i \in 1..Len(boot.calls) : CameraGranted(i)
    \/ \E i \in 1..Len(boot.calls) : CameraDenied(i)
    \/ \E i \in 1..Len(boot.calls) : VideoReady(i)
    \/ \E i \in 1..Len(boot.calls) : StartSendFrames(i)
    \/ \E i \in 1..Len(boot.calls) : HideLoading(i)
    \/ \E i \in 1..Len(boot.calls) : FallbackHide(i)

SpecStartup == InitStartup /\ [][StartupNext]_vars

\* the game loop under an edited physics literal: there is no other way to
\* configure the tunables, and nothing in the module reads them before the
\* handler does
Configurations ==
    { DefaultPhysics,
      [DefaultPhysics EXCEPT !.maxSpeed = -1000],
      [DefaultPhysics EXCEPT !.drag = 120],
      [DefaultPhysics EXCEPT !.gravity = -200] }

InitConfig ==
    /\ \E p \in Configurations : ConstructedWith(p)
    /\ mainVersion = "movement_data"
    /\ boot = BootRunning

ConfigNext ==
    \/ (msgCount < MaxMsgs /\ \E data \in MovementMessages : MovementData(data))
    \/ Animate1

SpecConfig == InitConfig /\ [][ConfigNext]_vars

\* the frame loop of video.js, with at most one disturbance in a run: the
\* video pauses (and may play again), a block throws, or a callback is late
VideoNext ==
    \/ SendFramesPass
    \/ CaptureThrows
    \/ MetricsThrow
    \/ LatePass
    \/ PauseVideo
    \/ PlayVideo
    \/ ProcessFramePass
    \/ Disconnect

SpecVideo == Init /\ [][VideoNext]_vars

\* every commands object with and without a server-computed bird_state
AllMessages ==
    { [commands |-> c] : c \in Commands }
    \cup { [commands |-> c, bird_state |-> s] : c \in Commands, s \in ServerStates }

ServerNext ==
    \/ (msgCount < MaxMsgs /\ \E data \in AllMessages : MovementData(data))
    \/ (msgCount < MaxMsgs /\ \E data \in MotionMessages : MotionData(data))

SpecServer == Init /\ [][ServerNext]_vars

\* rendering: a few messages that move the bird, and the frames between them
RenderMessages ==
    { m \in MovementMessages : ~NoServer(m) }
    \cup { [commands |-> [state |-> "dive", dive_intensity |-> 10000]] }

RenderNext ==
    \/ (msgCount < MaxMsgs /\ \E data \in RenderMessages : MovementData(data))
    \/ (msgCount < MaxMsgs /\ \E data \in MotionMessages : MotionData(data))
    \/ (frameNo < MaxRender /\ Frame1)
    \/ (frameNo < MaxRender /\ Frame2)

SpecRender == Init /\ [][RenderNext]_vars

\* one turn command of any angle, then the turn decays under Idle messages
TurnMessages ==
    { [commands |-> [turn |-> d, turn_angle |-> a]] :
        d \in {"left", "right"}, a \in 0..MaxAngle }

TurnTick == msgCount = 0 /\ \E data \in TurnMessages : MovementData(data)

Straighten ==
    /\ msgCount >= 1
    /\ Sustain([commands |-> [state |-> "none", flap |-> FALSE]])

TurnNext == TurnTick \/ Straighten

SpecTurn == InitIdle /\ [][TurnNext]_vars

-----------------------------------------------------------------------------
(* Properties *)

BirdState == gameState.birdState

\* C1: after every processed motion message, 0 <= speed <= maxSpeed, with or
\* without server-supplied bird state.
C1_SpeedBounds == BirdState.speed >= 0 /\ BirdState.speed <= maxSpeed

\* C2: under a sustained stream of Idle messages from height 5 and zero
\* momentum, the bird eventually rests at height 0 with zero vertical momentum
\* and stays there, and its height is never negative.
C2_GroundClamp ==
    /\ <>[](BirdState.height = 0 /\ BirdState.verticalMomentum = 0)
    /\ [](BirdState.height >= 0)

\* the bird has fallen from height 5 to the ground under Idle messages
C2_Landed ==
    /\ gameState.started
    /\ msgCount = MaxMsgs
    /\ cycle.effects = {}
    /\ BirdState.height = 0
    /\ BirdState.verticalMomentum = 0

\* C3: while the game is paused no field of the bird state is modified by any
\* event, arriving motion messages included.
C3_PausedFreezesBird ==
    [][(gameState.paused /\ gameState'.paused) => gameState'.birdState = gameState.birdState]_vars

\* C4: while the game is started and not paused, every render frame advances
\* height and vertical momentum with the most recent command (here: the bird is
\* in the air and the last command was Idle, so gravity has to act).
C4_FrameAdvancesPhysics ==
    [][(/\ frameNo' # frameNo
        /\ gameState.started /\ ~gameState.paused
        /\ gameState.lastCommand = "none"
        /\ gameState.birdState.height > 0)
       => (\/ gameState'.birdState.height # gameState.birdState.height
           \/ gameState'.birdState.verticalMomentum # gameState.birdState.verticalMomentum)]_vars

\* C5: for every interleaving of the load event, the forced-start timer and the
\* camera response, at most one animation loop and one frame-sending loop run.
C5_SingleLoops == boot.animLoops <= 1 /\ boot.sendLoops <= 1

\* C6: two runs fed the same messages from the same initial state have the same
\* bird state after every message, whatever keys were pressed and frames were
\* rendered in one of them: the handler reads neither the clock nor the flags.
C6_Deterministic == twin.birdState = gameState.birdState /\ twin.started = gameState.started

\* the two runs differ in what the handler must not read, and physics has run
C6_RunsDiffer ==
    /\ msgCount >= 2
    /\ gameState.paused /\ ~twin.paused
    /\ gameState.lastTime # twin.lastTime
    /\ gameState.started
    /\ BirdState.verticalMomentum # 0

\* C7: a new vertical mode takes effect only after it has been received in two
\* consecutive cycles: the branch applied changes only if the mode of this
\* message is the mode of the previous one.
C7_ModeHysteresis ==
    (msgCount >= 2 /\ cycle.branch # cycle.prevBranch) => cycle.state = cycle.prevState

\* C8: the displayed vertical mode follows the priority GainHeight (flap and
\* lean back) > Flap > Glide (arms extended, no flap) > Dive > Idle.
C8_ModePriority ==
    hud.drawn =>
        LET flap == hud.flap > 300
            leanBack == hud.lean < -100
            leanForward == hud.lean > 200
        IN  CASE flap /\ leanBack -> hud.mode = "Gaining Height"
              [] flap /\ ~leanBack -> hud.mode = "Flying"
              [] ~flap /\ hud.glide -> hud.mode = "Gliding"
              [] ~flap /\ ~hud.glide /\ leanForward -> hud.mode = "Diving"
              [] OTHER -> hud.mode \in {"Falling", "Turning Left", "Turning Right"}

\* C9: in every cycle at most one vertical-axis physics branch (glide, dive,
\* gain height, flap; none for Idle) is applied to the bird state.
C9_OneVerticalEffect == Cardinality(cycle.effects) <= 1

\* both shoulders plus at least one elbow/wrist pair
MinimumSet(kp) ==
    /\ Len(kp) >= 9
    /\ Present(kp[1]) /\ Present(kp[2])
    /\ \/ Present(kp[3]) /\ Present(kp[5])
       \/ Present(kp[4]) /\ Present(kp[6])

\* C10: when a keypoint frame lacks the minimum set, the derived features and
\* the displayed mode are those of the previous cycle.
C10_MissingDataKeepsFeatures ==
    [][(msgCount' # msgCount /\ ~MinimumSet(cycle'.keypoints)) => hud' = hud]_vars

-----------------------------------------------------------------------------
(* Properties of one physics tick and of sustained streams *)

\* the latest message was handled by the first revision and ran its client-side physics
Tick == mainVersion = "movement_data" /\ msgCount >= 1 /\ last.ticked

LastCommands == last.data.commands

\* the bird state after the passive part of the latest tick
Passive == ClientPhysics(last.before, LastCommands)

\* C11: in a tick, gravity is subtracted from verticalMomentum if and only if the
\* command is none of Glide, Flap and GainHeight; a GainHeight command never has
\* gravity applied, whatever the flap flag
C11_GravityIffNoLiftCommand ==
    Tick => (last.gravity <=> ~(\/ CmdState(LastCommands) \in {"glide", "gain_height"}
                                \/ CmdFlap(LastCommands)))

\* a Flap command and nothing else
PlainFlap(commands) ==
    CmdFlap(commands) /\ VerticalBranch(commands) = "none" /\ ~Has(commands, "turn")

\* C12: the command's forces are applied before momentum is integrated into the
\* height, so the command received in a tick already moves the height of that
\* tick: a Flap tick of a bird with no vertical momentum raises it
C12_CommandReachesHeight ==
    (Tick /\ PlainFlap(LastCommands) /\ last.before.verticalMomentum = 0)
        => BirdState.height > last.before.height

\* the message of an Idle tick
IdleData == [commands |-> [state |-> "none"]]

\* C13: ground friction is applied once per ground collision: for a bird that
\* already rests at height 0 under sustained Idle, a later tick applies only
\* the drag to the speed
C13_FrictionOnce ==
    (/\ Tick /\ run.data = IdleData /\ run.n >= 2
     /\ last.before.height = 0 /\ last.before.verticalMomentum = 0)
        => BirdState.speed = MulDiv(last.before.speed, dragPct, 100)

\* the turn rate a turn command asks for
TurnTarget(commands) ==
    IF commands.turn = "left"
    THEN -TurnPower(OrElse(commands, "turn_angle", 0))
    ELSE TurnPower(OrElse(commands, "turn_angle", 0))

\* C14: the turn rate never jumps: with a turn command it moves toward the target
\* without reaching it in one tick, and without one it shrinks by a constant
\* factor, keeping its sign and not reaching zero in one step (rates of at least
\* ten grid units, so that the factor is visible on the grid)
C14_TurnRateContinuous ==
    /\ (Tick /\ Has(LastCommands, "turn") /\ last.before.turn # TurnTarget(LastCommands))
          => /\ BirdState.turn # TurnTarget(LastCommands)
             /\ Abs(TurnTarget(LastCommands) - BirdState.turn)
                  < Abs(TurnTarget(LastCommands) - last.before.turn)
    /\ (Tick /\ ~Has(LastCommands, "turn") /\ Abs(last.before.turn) >= 10)
          => /\ BirdState.turn * last.before.turn > 0
             /\ Abs(BirdState.turn) < Abs(last.before.turn)

\* C15: a Glide tick adds liftFactor * speed to verticalMomentum (the speed taken
\* before or after the tick's drag) and leaves verticalMomentum no lower than
\* the downward cap of -0.01
C15_GlideLiftsMomentum ==
    (Tick /\ LastCommands = [state |-> "glide"])
        => /\ BirdState.verticalMomentum >= -100
           /\ Passive.verticalMomentum >= 0
                => BirdState.verticalMomentum - Passive.verticalMomentum
                     \in { MulDiv(last.before.speed, liftFactorPct, 100),
                           MulDiv(Passive.speed, liftFactorPct, 100) }

\* C16: a Dive(intensity) tick adds to the speed and takes from verticalMomentum
\* amounts proportional to the intensity, for every intensity in [0, 1]:
\* intensity 0 adds nothing and takes nothing
C16_DiveProportional ==
    (/\ Tick /\ CmdState(LastCommands) = "dive"
     /\ ~Has(LastCommands, "flap") /\ Has(LastCommands, "dive_intensity"))
        => /\ BirdState.speed
                = Min(Max(Passive.speed + MulDiv(300, LastCommands.dive_intensity, Scale), 0),
                      maxSpeed)
           /\ BirdState.verticalMomentum
                = Passive.verticalMomentum - MulDiv(100, LastCommands.dive_intensity, Scale)

\* C17: Flap and GainHeight each add positive verticalMomentum proportional to
\* the intensity; GainHeight never adds more speed than a Flap of the same
\* intensity does, and where it adds speed its momentum-to-speed ratio is
\* larger than Flap's (flapStrength : 0.01)
C17_GainHeightFavoursMomentum ==
    /\ (Tick /\ PlainFlap(LastCommands) /\ Has(LastCommands, "flap_intensity"))
          => /\ BirdState.verticalMomentum - Passive.verticalMomentum
                  = MulDiv(flapStrength, LastCommands.flap_intensity, Scale)
             /\ BirdState.verticalMomentum > Passive.verticalMomentum
    /\ (/\ Tick /\ CmdState(LastCommands) = "gain_height"
        /\ ~Has(LastCommands, "flap") /\ Has(LastCommands, "height_gain"))
          => /\ BirdState.verticalMomentum - Passive.verticalMomentum
                  = MulDiv(300, LastCommands.height_gain, Scale)
             /\ BirdState.verticalMomentum > Passive.verticalMomentum
             /\ BirdState.speed - Passive.speed
                  <= MulDiv(100, LastCommands.height_gain, Scale)
             /\ BirdState.speed > Passive.speed
                  => (BirdState.verticalMomentum - Passive.verticalMomentum) * 100
                       > flapStrength * (BirdState.speed - Passive.speed)

\* the mesh after n runs of updateBird on an unchanged bird state
RECURSIVE AfterFrames(_, _, _)
AfterFrames(m, state, n) ==
    IF n = 0 THEN m ELSE UpdateBird(AfterFrames(m, state, n - 1), state)

\* the frame that is rendered updates the mesh
Updating ==
    IF mainVersion = "movement_data"
    THEN gameState.started /\ ~gameState.paused
    ELSE ~gameState.paused

\* C18: every rate is scaled by the elapsed time of the tick, so the change over
\* a span of time does not depend on how many ticks it is divided into: a frame
\* that covers dt frame intervals advances the forward position and the yaw as
\* far as dt frames of one interval each
C18_ScaledByElapsedTime ==
    [][(frameNo' # frameNo /\ Updating)
         => LET dt == gameState'.lastTime - gameState.lastTime
                split == AfterFrames(bird, BirdState, dt)
            IN  /\ bird'.position.z = split.position.z
                /\ bird'.rotation.y = split.rotation.y]_vars

\* the message of a Flap tick of intensity 0.4
FlapData == [commands |-> [flap |-> TRUE, flap_intensity |-> 4000]]

\* C19: from the initial BirdState, six consecutive Flap ticks of intensity 0.4
\* give a speed that is strictly larger after each tick than before it
C19_FlapSpeedIncreases ==
    (run.data = FlapData /\ run.start = InitBirdState /\ run.n >= 1 /\ run.n <= 6)
        => BirdState.speed > last.before.speed

C19_SixFlaps ==
    /\ run.data = FlapData /\ run.start = InitBirdState /\ run.n = 6
    /\ last.data = FlapData /\ last.ticked
    /\ BirdState.speed > last.before.speed

\* the message of a Glide tick
GlideData == [commands |-> [state |-> "glide"]]

\* the bird state after n Idle ticks from b
RECURSIVE IdleAfter(_, _)
IdleAfter(b, n) ==
    IF n = 0 THEN b
    ELSE MovementDataHandler([InitGameState EXCEPT !.started = TRUE,
                                                   !.birdState = IdleAfter(b, n - 1)],
                             IdleData).birdState

\* C20: from the same starting BirdState, the height after each of 10 consecutive
\* Glide ticks is at least the height after as many Idle ticks, and after the
\* last tick it is strictly greater
C20_GlideAboveIdle ==
    (run.data = GlideData /\ run.n >= 1 /\ run.n <= 10)
        => /\ BirdState.height >= IdleAfter(run.start, run.n).height
           /\ run.n = 10 => BirdState.height > IdleAfter(run.start, run.n).height

\* C20, amended: ... and after the last tick it is strictly greater whenever the
\* gliding bird is still above the ground
C20_GlideAboveIdle_Aloft ==
    (run.data = GlideData /\ run.n >= 1 /\ run.n <= 10)
        => /\ BirdState.height >= IdleAfter(run.start, run.n).height
           /\ (run.n = 10 /\ BirdState.height > 0)
                => BirdState.height > IdleAfter(run.start, run.n).height

C20_TenGlides ==
    /\ run.data = GlideData /\ run.n = 10 /\ last.ticked
    /\ run.start = InitBirdState
    /\ BirdState.height > IdleAfter(run.start, 10).height
    /\ IdleAfter(run.start, 10).height < run.start.height

-----------------------------------------------------------------------------
\* the message handled last was a turn command of the first revision
TurnCommanded ==
    /\ mainVersion = "movement_data"
    /\ msgCount >= 1
    /\ NoServer(last.data)
    /\ Has(LastCommands, "turn")

\* C21: the magnitude of the turn grows strictly with the commanded angle and
\* faster than in proportion to it (doubling the angle more than doubles the
\* turn), and its sign is the direction's alone: left negative, right positive
C21_TurnPowerLaw ==
    TurnCommanded =>
        LET a == OrElse(LastCommands, "turn_angle", 0)
            t == BirdState.turn
        IN  /\ \A a2 \in 0..(a - 1) : TurnPower(a2) < Abs(t)
            /\ \A a2 \in 1..a : 2 * a2 = a => Abs(t) > 2 * TurnPower(a2)
            /\ a > 0 => (t < 0 <=> LastCommands.turn = "left")
            /\ a > 0 => (t > 0 <=> LastCommands.turn = "right")

\* a left turn of 60 degrees turns the bird by -0.05
C21_HardLeft ==
    /\ TurnCommanded
    /\ LastCommands.turn = "left"
    /\ OrElse(LastCommands, "turn_angle", 0) = 60
    /\ BirdState.turn = -500

-----------------------------------------------------------------------------
\* C22: a render frame writes nothing in the bird state: speed, height, turn,
\* verticalMomentum and the wing flap are the same after the frame, and of the
\* game state only the frame timestamp changes; the mesh is what moves
C22_FramesKeepBirdState ==
    [][frameNo' # frameNo =>
         /\ gameState'.birdState = gameState.birdState
         /\ [gameState' EXCEPT !.lastTime = 0] = [gameState EXCEPT !.lastTime = 0]]_vars

\* three frames have moved the mesh of a flying bird
C22_ThreeFrames ==
    /\ frameNo = 3
    /\ gameState.started
    /\ BirdState.speed > 0
    /\ bird.position.z >= 2 * BirdState.speed
    /\ bird.userData.lastHeight = BirdState.height

-----------------------------------------------------------------------------
\* the ranges in which the tunables make sense: no negative gravity, lift,
\* flap strength or speed limit, a drag that does not speed the bird up
InRange(p) ==
    /\ p.gravity >= 0
    /\ p.drag > 0 /\ p.drag <= 100
    /\ p.liftFactor >= 0
    /\ p.flapStrength >= 0
    /\ p.maxSpeed >= 0

-----------------------------------------------------------------------------
\* an angle moved from prev to new towards target by the fraction pct/100 of
\* the distance: no overshoot, and what remains is (1 - pct/100) of what was,
\* to within one unit of the grid
Eases(prev, new, target, pct) ==
    LET d == target - prev
        d2 == target - new
    IN  /\ pct > 0 /\ pct < 100
        /\ d >= 0 => d2 >= 0 /\ d2 <= d
        /\ d <= 0 => d2 <= 0 /\ d2 >= d
        /\ 100 * Abs(d2) >= (100 - pct) * Abs(d)
        /\ 100 * Abs(d2) < (100 - pct) * Abs(d) + 100

\* C24: a frame that updates the mesh moves the bank and the pitch a fixed
\* fraction of the way to their targets, without overshoot, leaving
\* (1 - rate) of the distance; the pitch rate of a diving bird is the larger
C24_Smoothing ==
    [][(frameNo' # frameNo /\ bird' # bird) =>
         LET p == Posture(bird, gameState.birdState)
         IN  /\ Eases(bird.rotation.z, bird'.rotation.z, Rad(p.targetBankAngle),
                       BankRate)
             /\ Eases(bird.rotation.x, bird'.rotation.x, Rad(p.targetPitchAngle),
                       PitchRate(p.isDiving))
             /\ PitchRate(TRUE) > PitchRate(FALSE)
             /\ (p.isDiving /\ bird.rotation.x = 0) =>
                    100 * bird'.rotation.x > PitchRate(FALSE) * Rad(p.targetPitchAngle)]_vars

\* a frame has pitched a diving, turning bird down and banked it
C24_DivingFrame ==
    /\ frameNo >= 2
    /\ BirdState.speed > 3000
    /\ bird.userData.verticalSpeed < -100
    /\ bird.userData.lastHeight = BirdState.height
    /\ bird.rotation.x > 0
    /\ bird.rotation.z # 0

-----------------------------------------------------------------------------
\* C25: a message identical to the one before it triggers no state sound and
\* does not write lastCommand: in a stream of one message the sounds start
\* with the first message only
C25_SoundsOnlyOnChange ==
    run.n >= 2 => last.sounds = <<>>

-----------------------------------------------------------------------------
\* C26: started never goes back to false, and a message without bird_state
\* that leaves the game not started leaves height, speed and
\* verticalMomentum as they were (5, 0, 0 unless a server state came before)
C26_NothingMovesBeforeStart ==
    [][/\ gameState.started => gameState'.started
       /\ (~gameState'.started /\ NoServer(last'.data)) =>
              /\ gameState'.birdState.height = gameState.birdState.height
              /\ gameState'.birdState.speed = gameState.birdState.speed
              /\ gameState'.birdState.verticalMomentum
                    = gameState.birdState.verticalMomentum
              /\ (last'.before.height = InitBirdState.height
                   /\ last'.before.speed = InitBirdState.speed
                   /\ last'.before.verticalMomentum = InitBirdState.verticalMomentum)
                  => (/\ gameState'.birdState.height = 50000
                      /\ gameState'.birdState.speed = 0
                      /\ gameState'.birdState.verticalMomentum = 0)]_vars

\* an empty message after a server state: the turn has decayed, the height is
\* the server's still, the game has not started
C26_EmptyMessage ==
    /\ mainVersion = "movement_data"
    /\ ~gameState.started
    /\ msgCount = 2
    /\ NoServer(last.data)
    /\ BirdState.turn = 90
    /\ BirdState.height = 60000

\* the message handled last was a movement_data message with a bird_state
ServerStateApplied ==
    /\ mainVersion = "movement_data"
    /\ msgCount >= 1
    /\ ~NoServer(last.data)

\* C27: after a message with a server-computed bird_state the vertical
\* momentum is what it was, height and turn are the server's and the speed is
\* the server's clamped to [0, maxSpeed], whatever the commands
C27_ServerStateWins ==
    ServerStateApplied =>
        /\ BirdState.verticalMomentum = last.before.verticalMomentum
        /\ BirdState.height = last.data.bird_state.height
        /\ BirdState.turn = last.data.bird_state.turn
        /\ BirdState.speed = Min(Max(last.data.bird_state.speed, 0), maxSpeed)

\* a flap command came with a server state faster than maxSpeed while the bird
\* had vertical momentum
C27_FlapWithServerState ==
    /\ ServerStateApplied
    /\ CmdFlap(LastCommands)
    /\ last.before.verticalMomentum # 0
    /\ last.data.bird_state.speed = 10000
    /\ BirdState.speed = 8000

-----------------------------------------------------------------------------
\* a step of the model that is one pass of sendFrames
SendFramesRan == mainVersion = "motion_data" /\ video'.passes # video.passes

\* C28: every pass of sendFrames leaves exactly one next invocation
\* scheduled, a 500 ms timer when it found the video unavailable and an
\* animation frame otherwise, whether or not the capture or the metrics
\* threw: at all times one invocation of the loop is pending
C28_OneNextInvocation ==
    /\ [](mainVersion = "motion_data" => video.calls + video.timers + video.rafs = 1)
    /\ [][SendFramesRan =>
             /\ video'.calls = 0
             /\ Unavailable(video) => (video'.timers = 1 /\ video'.rafs = 0)
             /\ ~Unavailable(video) => (video'.timers = 0 /\ video'.rafs = 1)]_vars

\* the capture or the metrics threw in an earlier pass and a frame has been
\* sent since
C28_SentAfterThrow ==
    /\ mainVersion = "motion_data"
    /\ video.event = "threw"
    /\ video.sent
    /\ video.passes >= 3
    /\ video.rafs = 1

Recent(v) ==
    /\ \A i \in 1..Len(v.processingBuffer) : v.processingBuffer[i] >= v.now - 5000
    /\ \A i \in 1..(Len(v.processingBuffer) - 1) :
          v.processingBuffer[i] <= v.processingBuffer[i + 1]

\* connectionStatus is connecting, good or slow, does not go back to
\* connecting, and turns slow only in a pass that brings the frame count to a
\* multiple of 30 with more than 60 timestamps buffered
StatusSteps ==
    /\ video'.connectionStatus \in {"connecting", "good", "slow"}
    /\ video'.connectionStatus = "connecting" => video.connectionStatus = "connecting"
    /\ (video'.connectionStatus = "slow" /\ video.connectionStatus # "slow") =>
          /\ video'.frameCount = video.frameCount + 1
          /\ video'.frameCount % 30 = 0
          /\ Len(video.processingBuffer) + 1 > 60

\* C30 as stated: after every pass of sendFrames the buffer is recent
C30_BufferRecent ==
    [][SendFramesRan => (Recent(video') /\ StatusSteps)]_vars

\* C30: after every pass of sendFrames that finds the video available the
\* buffer holds timestamps of the last 5 seconds only, in non-decreasing
\* order; the status steps are as stated
C30_BufferRecentWhenAvailable ==
    [][SendFramesRan =>
         /\ ~Unavailable(video) => Recent(video')
         /\ StatusSteps]_vars

\* the loop has found more than 60 timestamps at a frame count of 90 and
\* turned slow
C30_TurnedSlow ==
    /\ video.connectionStatus = "slow"
    /\ video.frameCount = 90
    /\ Len(video.processingBuffer) > 60

=============================================================================
